---- MODULE Spec2Model ----
(***************************************************************************)
(* Model of the onboarding / claim flow of AuthFlowModal                   *)
(* (src/app/my-care/layout.tsx) together with the ambient auth state of    *)
(* AuthProvider (src/unnamed/part_005).                                    *)
(*                                                                         *)
(* Text values are sequences of tokens; the token " " stands for white     *)
(* space, so that String.prototype.trim() is modelled by what it does.     *)
(* null / undefined are Null (identifiers) and NullText (strings, arrays).  *)
(***************************************************************************)
EXTENDS Integers, Sequences, FiniteSets, TLC

\* null / undefined where an identifier or a tag is expected
Null == "null"
\* null / undefined where a string or an array is expected
NullText == <<"null">>
\* no item under STORAGE_KEY; a stored item is the one-element sequence of it
NoDraft == <<>>
\* no row inserted into business_profiles; a row is the one-element sequence of it
NoRow == <<>>

\* ---------------------------------------------------------------- bounds
\* in-flight asynchronous handlers that may coexist
MaxTasks == 2
\* events (user actions, prop changes, resolutions) in one behaviour
MaxEvents == 12
\* the minutes that pass in one step of the clock
TickMinutes == 20
\* the seconds that pass in one step of the resend cooldown timer
TimerSeconds == 30

\* ------------------------------------------------------------- text values
Empty == <<>>
Blank == <<" ">>
Austin == <<"Austin">>
Dallas == <<"Dallas">>
Sunrise == <<"Sunrise">>
Jane == <<"Jane">>
Mail == <<"a@x.io">>
Phone == <<"555">>
Pass8 == <<"p", "a", "s", "s", "w", "o", "r", "d">>
Code8 == <<"1", "2", "3", "4", "5", "6", "7", "8">>
Pass3 == <<"p", "w", "d">>
Code3 == <<"1", "2", "3">>

RECURSIVE TrimStart(_)
TrimStart(s) ==
  IF s # <<>> /\ Head(s) = " " THEN TrimStart(Tail(s)) ELSE s

RECURSIVE TrimEnd(_)
TrimEnd(s) ==
  IF s # <<>> /\ s[Len(s)] = " " THEN TrimEnd(SubSeq(s, 1, Len(s) - 1)) ELSE s

\* String.prototype.trim()
Trim(s) == TrimEnd(TrimStart(s))

\* JavaScript truthiness of a string, an array or null
Truthy(v) == v # NullText /\ v # <<>>

\* ------------------------------------------------------------------ types
UserIntent == {"family", "provider"}
ProviderType == {"organization", "caregiver"}
AuthFlowStep ==
  {"intent", "provider-type", "provider-info", "org-search", "visibility",
   "family-info", "family-needs", "auth", "verify-code"}

\* unclaimed organization listings of the business_profiles table that a
\* caller may pass as claimProfile or that searchOrgs may return
ListingIds == {"L1", "L2"}

\* Profile snapshot of a listing (the fields the flow reads)
Listing(id) ==
  [id |-> id,
   display_name |-> Sunrise,
   city |-> IF id = "L1" THEN Austin ELSE Empty,
   state |-> Empty,
   zip |-> Empty,
   care_types |-> <<>>,
   category |-> NullText,
   description |-> Empty,
   phone |-> Empty]

INITIAL_DATA ==
  [email |-> Empty,
   password |-> Empty,
   displayName |-> Empty,
   intent |-> Null,
   providerType |-> Null,
   orgName |-> Empty,
   city |-> Empty,
   state |-> Empty,
   zip |-> Empty,
   careTypes |-> <<>>,
   category |-> NullText,
   description |-> Empty,
   phone |-> Empty,
   careNeeds |-> <<>>,
   claimedProfileId |-> Null]

\* { ...prev, ...partial }
Merge(prev, partial) ==
  [k \in DOMAIN prev |-> IF k \in DOMAIN partial THEN partial[k] ELSE prev[k]]

\* ------------------------------------------------------- Step Configuration
ProviderStepMap(step, isOrg) ==
  CASE step = "intent" -> 0
    [] step = "provider-type" -> 1
    [] step = "provider-info" -> 2
    [] step = "org-search" -> 3
    [] step = "visibility" -> IF isOrg THEN 3 ELSE 2
    [] step = "auth" -> IF isOrg THEN 4 ELSE 3
    [] step = "verify-code" -> IF isOrg THEN 4 ELSE 3
    [] OTHER -> 0

FamilyStepMap(step) ==
  CASE step = "intent" -> 0
    [] step = "family-info" -> 1
    [] step = "family-needs" -> 2
    [] step = "auth" -> 3
    [] step = "verify-code" -> 3
    [] OTHER -> 0

\* stepMap[step] || 1
OrOne(n) == IF n = 0 THEN 1 ELSE n

\* a total that leaves out the auth step
TotalStepsWithoutAuth(d, isAuthenticated) ==
  IF d.intent = "provider"
  THEN (IF d.providerType = "organization" THEN 3 ELSE 2)
  ELSE 2

TotalSteps(d, isAuthenticated) ==
  IF d.intent = "provider"
  THEN (IF d.providerType = "organization" THEN 3 ELSE 2)
       + (IF isAuthenticated THEN 0 ELSE 1)
  ELSE IF isAuthenticated THEN 2 ELSE 3

StepNumber(s, d) ==
  IF d.intent = "provider"
  THEN OrOne(ProviderStepMap(s, d.providerType = "organization"))
  ELSE OrOne(FamilyStepMap(s))

getStepConfig(s, d, isAuthenticated) ==
  [stepNumber |-> StepNumber(s, d), totalSteps |-> TotalSteps(d, isAuthenticated)]


\* ------------------------------------------------------------------ state
VARIABLES
  initialIntent,        \* prop intent (UserIntent or Null)
  initialProviderType,  \* prop providerType (ProviderType or Null)
  claimProfile,         \* prop claimProfile: a listing id or Null
  isOpen,               \* prop isOpen
  step,                 \* useState step
  data,                 \* useState data (FlowData)
  error,                \* useState error ("" or a message tag)
  loading,              \* useState loading
  authMode,             \* useState authMode
  otpCode,              \* useState otpCode
  searchResults,        \* useState searchResults (set of listing ids)
  hasSearched,          \* useState hasSearched
  selectedOrgId,        \* useState selectedOrgId
  claimAutoCompleteRef, \* useRef latch of the auto-complete effect
  user,                 \* AuthProvider state.user is present
  account,              \* AuthProvider state.account is present
  session,              \* the identity gateway holds a session (auth.getUser)
  tasks,                \* asynchronous handlers suspended at an await
  events,               \* number of events handled so far
  draft,                \* localStorage[STORAGE_KEY]: NoDraft or <<saved record>>;
                        \* the record holds age = Date.now() - timestamp (minutes)
                        \* in place of timestamp, the clock being read only there
  db,                   \* storage layer: accounts, business_profiles, memberships
  peer,                 \* the flow of a second account in another browser:
                        \* its searchResults, FlowData.claimedProfileId and
                        \* the position of its commit
  mergeSnapshot,        \* claim merge: the claimed profile snapshot
  mergeData,            \* claim merge: the flow data
  mergeUpdate,          \* claim merge: <<claimUpdate written>>, or <<>>
  resendCooldown        \* useState resendCooldown (seconds)

propVars == <<initialIntent, initialProviderType>>
uiVars == <<step, data, error, loading, authMode, otpCode>>
searchVars == <<searchResults, hasSearched, selectedOrgId>>
authVars == <<user, account, session>>
mergeVars == <<mergeSnapshot, mergeData, mergeUpdate>>
vars ==
  <<initialIntent, initialProviderType, claimProfile, isOpen, step, data, error,
    loading, authMode, otpCode, searchResults, hasSearched, selectedOrgId,
    claimAutoCompleteRef, user, account, session, tasks, events,
    draft, db, peer, mergeSnapshot, mergeData, mergeUpdate, resendCooldown>>

\* setResendCooldown(30) after the first send, (60) after a resend (seconds)
FIRST_SEND_COOLDOWN == 30
RESEND_COOLDOWN == 60

\* 30 * 60 * 1000 ms, in minutes
DRAFT_MAX_AGE == 30

\* ----------------------------------------------------- initial step and data
getInitialStep(cp, ii, ipt) ==
  IF cp # Null THEN "auth"
  ELSE IF ii = "provider"
       THEN (IF ipt # Null THEN "provider-info" ELSE "provider-type")
  ELSE IF ii = "family" THEN "family-info"
  ELSE "intent"

\* the useState initializer of data, and the data the reset effect sets
InitialData(cp, ii, ipt) ==
  IF cp # Null
  THEN Merge(INITIAL_DATA,
             [intent |-> "provider",
              providerType |-> "organization",
              orgName |-> Listing(cp).display_name,
              city |-> Listing(cp).city,
              state |-> Listing(cp).state,
              zip |-> Listing(cp).zip,
              careTypes |-> Listing(cp).care_types,
              category |-> Listing(cp).category,
              description |-> Listing(cp).description,
              phone |-> Listing(cp).phone,
              claimedProfileId |-> cp])
  ELSE Merge(INITIAL_DATA, [intent |-> ii, providerType |-> ipt])

\* ------------------------------------------------------ draft persistence
\* a toSave that also stores the email
DraftKeysWithEmail ==
  {"intent", "providerType", "orgName", "displayName", "city", "state", "zip",
   "careTypes", "category", "description", "phone", "careNeeds", "email"}

DraftKeys ==
  {"intent", "providerType", "orgName", "displayName", "city", "state", "zip",
   "careTypes", "category", "description", "phone", "careNeeds"}

\* the toSave record of the save-progress effect
toSave(s, d) ==
  [step |-> s, data |-> [k \in DraftKeys |-> d[k]], age |-> 0]

\* a save-progress effect that writes on every step
SaveProgressEveryStep(open, s, d, old) ==
  IF open THEN <<toSave(s, d)>> ELSE old

\* save-progress effect, run after a render in which isOpen, step or data changed
SaveProgress(open, s, d, old) ==
  IF open /\ s # "auth" /\ s # "verify-code" THEN <<toSave(s, d)>> ELSE old

\* a restore-progress effect that does not compare the intents
RestoreAppliesAnyIntent(open, cp, ii, saved) ==
  /\ open /\ cp = Null /\ saved # NoDraft
  /\ saved[1].age < DRAFT_MAX_AGE

\* a restore-progress effect that does not look at the timestamp
RestoreAppliesAnyAge(open, cp, ii, saved) ==
  /\ open /\ cp = Null /\ saved # NoDraft
  /\ (ii = Null \/ saved[1].data.intent = ii)

\* restore-progress effect: the draft is merged into data
RestoreApplies(open, cp, ii, saved) ==
  /\ open /\ cp = Null /\ saved # NoDraft
  /\ saved[1].age < DRAFT_MAX_AGE
  /\ (ii = Null \/ saved[1].data.intent = ii)

\* restore-progress effect: the draft is removed as too old
RestoreExpires(open, cp, saved) ==
  /\ open /\ cp = Null /\ saved # NoDraft
  /\ ~(saved[1].age < DRAFT_MAX_AGE)


\* ------------------------------------------------------------- navigation
canGoBack(s, cp, ii, ipt) ==
  IF s = "intent" THEN FALSE
  ELSE IF s = "provider-type" /\ ii = "provider" THEN FALSE
  ELSE IF s = "provider-info" /\ ipt # Null THEN FALSE
  ELSE IF s = "family-info" /\ ii = "family" THEN FALSE
  ELSE IF s = "auth" /\ cp # Null THEN FALSE
  ELSE TRUE

\* the step goBack leaves the flow on (the switch of goBack)
goBackStep(s, d, cp, ii, ipt) ==
  CASE s = "provider-type" -> IF ii = Null THEN "intent" ELSE s
    [] s = "provider-info" -> IF ipt # Null THEN s ELSE "provider-type"
    [] s = "org-search" -> "provider-info"
    [] s = "family-info" -> IF ii = Null THEN "intent" ELSE s
    [] s = "family-needs" -> "family-info"
    [] s = "auth" ->
         IF cp # Null THEN s
         ELSE IF d.intent = "provider"
              THEN (IF d.providerType = "organization"
                    THEN "org-search" ELSE "provider-info")
         ELSE "family-needs"
    [] s = "verify-code" -> "auth"
    [] OTHER -> s

\* showProgress: the progress header (with its Back button) is rendered
showProgress(s, d) == s # "intent" /\ d.intent # Null

isProviderInfoValid(d) ==
  LET name == IF d.providerType = "organization" THEN d.orgName ELSE d.displayName
  IN /\ Len(Trim(name)) > 0
     /\ (Len(Trim(d.city)) > 0 \/ Len(Trim(d.state)) > 0)
     /\ Len(d.careTypes) > 0
     /\ Len(Trim(d.phone)) > 0

\* components/ui/Button: a button given loading or disabled takes no click
ButtonEnabled(isLoading, isDisabled) == ~isLoading /\ ~isDisabled

\* ------------------------------------------------------- asynchronous tasks
\* A task is a handler suspended at an await, with the values its closure
\* captured from the render that created it.
Task(pc, d, origin) ==
  [pc |-> pc, snap |-> d, acct |-> account, usr |-> user,
   origin |-> origin, cur |-> TRUE]

\* the handlers of earlier flows, as a newly opened flow finds them
Stale(ts) == [i \in DOMAIN ts |-> [ts[i] EXCEPT !.cur = FALSE]]

\* an asynchronous handler is called and runs to its first await
Start(ts, t) ==
  /\ Len(ts) < MaxTasks
  /\ tasks' = Append(ts, t)

\* one more event is handled
Event ==
  /\ events < MaxEvents
  /\ events' = events + 1

\* no handler is called, none resolves
NoTask == UNCHANGED tasks

RemoveAt(seq, i) == SubSeq(seq, 1, i - 1) \o SubSeq(seq, i + 1, Len(seq))

\* the auto-complete effect without its latch
AutoCompleteFiresUnlatched(open, cp, u, latch) == open /\ cp # Null /\ u

\* auto-complete effect: handleComplete is to be called
AutoCompleteFires(open, cp, u, latch) == open /\ cp # Null /\ u /\ ~latch

\* ---------------------------------------------------------------- Init
\* prop defaultToSignIn (its default)
defaultToSignIn == FALSE

\* accounts.id of the account of this flow and of the second account
AccountId == "account-1"
PeerAccountId == "account-2"

\* business_profiles.account_id of the listings: Null while claim_state is
\* "unclaimed"
NoOwner == [id \in ListingIds |-> Null]

\* the flow of the second account has not searched yet
NoPeer == [searchResults |-> {}, claimedProfileId |-> Null, pc |-> "org-search"]

InitialAuthMode == IF defaultToSignIn THEN "sign-in" ELSE "sign-up"

InitFlow(cp, ii, ipt, u) ==
  /\ initialIntent = ii
  /\ initialProviderType = ipt
  /\ claimProfile = cp
  /\ isOpen = FALSE
  /\ step = getInitialStep(cp, ii, ipt)
  /\ data = InitialData(cp, ii, ipt)
  /\ error = ""
  /\ loading = FALSE
  /\ authMode = InitialAuthMode
  /\ otpCode = Empty
  /\ searchResults = {}
  /\ hasSearched = FALSE
  /\ selectedOrgId = Null
  /\ claimAutoCompleteRef = FALSE
  /\ user = u
  /\ account = u
  /\ session = u
  /\ tasks = <<>>
  /\ events = 0
  /\ resendCooldown = 0
  /\ draft = NoDraft
  /\ peer = NoPeer
  /\ db = [account |-> u, inserted |-> 0, claimUpdates |-> 0, membership |-> FALSE,
           memberships |-> <<>>, claimed |-> {}, owner |-> NoOwner,
           row |-> NoRow, active |-> Null, onboarding |-> FALSE]

MergeIdle ==
  /\ mergeSnapshot = Listing("L1")
  /\ mergeData = INITIAL_DATA
  /\ mergeUpdate = <<>>

Init ==
  /\ \E cp \in {Null, "L1"}, ii \in UserIntent \cup {Null},
        ipt \in ProviderType \cup {Null}, u \in BOOLEAN :
       /\ cp # Null => ii = Null /\ ipt = Null
       /\ InitFlow(cp, ii, ipt, u)
  /\ MergeIdle

\* a reset effect that leaves the code field and the cooldown as they are
ResetStateKeepsCode(cp) ==
  /\ step' = getInitialStep(cp, initialIntent, initialProviderType)
  /\ data' = InitialData(cp, initialIntent, initialProviderType)
  /\ error' = ""
  /\ loading' = FALSE
  /\ authMode' = InitialAuthMode
  /\ UNCHANGED <<otpCode, resendCooldown>>
  /\ searchResults' = {}
  /\ hasSearched' = FALSE
  /\ selectedOrgId' = Null

\* ------------------------------------------------------- reset-on-close
\* the state the reset effect sets when isOpen is false
ResetState(cp) ==
  /\ step' = getInitialStep(cp, initialIntent, initialProviderType)
  /\ data' = InitialData(cp, initialIntent, initialProviderType)
  /\ error' = ""
  /\ loading' = FALSE
  /\ authMode' = InitialAuthMode
  /\ otpCode' = Empty
  /\ resendCooldown' = 0
  /\ searchResults' = {}
  /\ hasSearched' = FALSE
  /\ selectedOrgId' = Null

\* ------------------------------------------------------------ the clock
\* time passes: the stored draft ages. The age is read by the restore effect
\* alone, on open, and every write sets it to 0: the time that passes in an open
\* flow adds to the time before the next open. An age past DRAFT_MAX_AGE is read
\* as any other such age.
Tick ==
  /\ Event
  /\ ~isOpen
  /\ draft # NoDraft
  /\ draft[1].age < DRAFT_MAX_AGE
  /\ draft' = <<[draft[1] EXCEPT !.age = @ + TickMinutes]>>
  /\ UNCHANGED <<propVars, peer, claimProfile, isOpen, uiVars, searchVars,
                 claimAutoCompleteRef, authVars, tasks, db, mergeVars,
                 resendCooldown>>

\* the resend cooldown timer effect, fired n times: each firing, a second
\* after the last change of resendCooldown, sets it to resendCooldown - 1
CooldownTimer(n) ==
  /\ Event
  /\ n >= 1
  /\ resendCooldown > 0
  /\ resendCooldown' = IF resendCooldown > n THEN resendCooldown - n ELSE 0
  /\ UNCHANGED <<propVars, peer, claimProfile, isOpen, uiVars, searchVars,
                 claimAutoCompleteRef, authVars, tasks, draft, db, mergeVars>>

\* --------------------------------------------------------- open and close
\* The caller sets isOpen. The effects of the render run in the order of their
\* declaration: save-progress, restore-progress, auto-complete; the data the
\* restore sets is rendered and saved again.
Open ==
  /\ Event
  /\ ~isOpen
  /\ isOpen' = TRUE
  /\ LET d1 == SaveProgress(TRUE, step, data, draft)
         restored == RestoreApplies(TRUE, claimProfile, initialIntent, d1)
         d2 == IF RestoreExpires(TRUE, claimProfile, d1) THEN NoDraft ELSE d1
         data2 == IF restored THEN Merge(data, d1[1].data) ELSE data
         fire == AutoCompleteFires(TRUE, claimProfile, user, claimAutoCompleteRef)
     IN /\ data' = data2
        /\ draft' = IF restored THEN SaveProgress(TRUE, step, data2, d2) ELSE d2
        /\ claimAutoCompleteRef' = (claimAutoCompleteRef \/ fire)
        /\ IF fire
           THEN /\ Start(Stale(tasks), Task("commit", data, "effect"))
                /\ loading' = TRUE
                /\ error' = ""
           ELSE /\ tasks' = Stale(tasks)
                /\ UNCHANGED <<loading, error>>
  /\ UNCHANGED <<propVars, peer, claimProfile, step, authMode, otpCode, searchVars,
                 authVars, db, mergeVars,
                 resendCooldown>>

\* Modal onClose: the caller sets isOpen to false; the reset effect and the
\* auto-complete effect (latch reset) run
Close ==
  /\ Event
  /\ isOpen
  /\ isOpen' = FALSE
  /\ ResetState(claimProfile)
  /\ claimAutoCompleteRef' = FALSE
  /\ UNCHANGED <<propVars, peer, claimProfile, authVars, tasks, draft, db,
                 mergeVars>>


\* ------------------------------------------------------ ambient auth state
\* AuthProvider onAuthStateChange SIGNED_IN: state.user and state.account are
\* set; the auto-complete effect of the modal runs on the changed user
AuthStateChange ==
  /\ Event
  /\ session /\ ~user
  /\ user' = TRUE
  /\ account' = db.account
  /\ LET fire == AutoCompleteFires(isOpen, claimProfile, TRUE, claimAutoCompleteRef)
     IN /\ claimAutoCompleteRef' = (claimAutoCompleteRef \/ fire)
        /\ IF fire
           THEN /\ Start(tasks, [Task("commit", data, "effect")
                                   EXCEPT !.acct = db.account, !.usr = TRUE])
                /\ loading' = TRUE
                /\ error' = ""
           ELSE UNCHANGED <<tasks, loading, error>>
  /\ UNCHANGED <<propVars, peer, claimProfile, isOpen, step, data, authMode, otpCode,
                 searchVars, session, draft, db, mergeVars,
                 resendCooldown>>

\* The caller passes another claim target. Open: the auto-complete effect runs
\* on the changed claimProfile. Closed: the reset effect runs on it.
ClaimProfileChange ==
  /\ Event
  /\ claimProfile # Null
  /\ \E cp \in ListingIds \ {claimProfile} :
       /\ claimProfile' = cp
       /\ IF isOpen
          THEN LET fire == AutoCompleteFires(TRUE, cp, user, claimAutoCompleteRef)
               IN /\ claimAutoCompleteRef' = (claimAutoCompleteRef \/ fire)
                  /\ IF fire
                     THEN /\ Start(tasks, Task("commit", data, "effect"))
                          /\ loading' = TRUE
                          /\ error' = ""
                     ELSE UNCHANGED <<tasks, loading, error>>
                  /\ UNCHANGED <<step, data, authMode, otpCode, resendCooldown,
                                 searchVars>>
          ELSE /\ ResetState(cp)
               /\ claimAutoCompleteRef' = FALSE
               /\ NoTask
  /\ UNCHANGED <<propVars, peer, isOpen, authVars, draft, db, mergeVars>>

\* ------------------------------------------------------------ data entry
\* what the fields of a step hand to updateData
FieldInputs(s, d) ==
  CASE s = "provider-info" ->
         {[city |-> Austin],
          IF d.providerType = "organization"
          THEN [orgName |-> Sunrise, careTypes |-> <<"Home Care">>, phone |-> Phone]
          ELSE [displayName |-> Jane, careTypes |-> <<"Home Care">>, phone |-> Phone]}
    [] s = "family-info" -> {[city |-> Austin], [displayName |-> Jane]}
    [] s = "family-needs" ->
         {[careNeeds |-> IF d.careNeeds = <<>> THEN <<"Memory Care">> ELSE <<>>]}
    [] s = "auth" -> {[email |-> Mail, password |-> Pass8]}
    [] OTHER -> {}

updateData ==
  /\ Event
  /\ isOpen
  /\ \E partial \in FieldInputs(step, data) :
       /\ Merge(data, partial) # data
       /\ data' = Merge(data, partial)
  /\ draft' = SaveProgress(TRUE, step, data', draft)
  /\ UNCHANGED <<propVars, peer, claimProfile, isOpen, step, error, loading, authMode,
                 otpCode, searchVars, claimAutoCompleteRef, authVars, tasks, db, mergeVars,
                 resendCooldown>>

\* -------------------------------------------------------- step handlers
handleIntentSelect(intent) ==
  /\ Event
  /\ isOpen /\ step = "intent"
  /\ data' = Merge(data, [intent |-> intent])
  /\ step' = IF intent = "provider" THEN "provider-type" ELSE "family-info"
  /\ draft' = SaveProgress(TRUE, step', data', draft)
  /\ UNCHANGED <<propVars, peer, claimProfile, isOpen, error, loading, authMode, otpCode,
                 searchVars, claimAutoCompleteRef, authVars, tasks, db,
                 mergeVars,
                 resendCooldown>>

handleProviderTypeSelect(type) ==
  /\ Event
  /\ isOpen /\ step = "provider-type"
  /\ data' = Merge(data, [providerType |-> type])
  /\ step' = "provider-info"
  /\ draft' = SaveProgress(TRUE, step', data', draft)
  /\ UNCHANGED <<propVars, peer, claimProfile, isOpen, error, loading, authMode, otpCode,
                 searchVars, claimAutoCompleteRef, authVars, tasks, db,
                 mergeVars,
                 resendCooldown>>

\* Continue of ProviderInfoStep (disabled={!isValid || loading})
handleProviderInfoNext ==
  /\ Event
  /\ isOpen /\ step = "provider-info"
  /\ ButtonEnabled(loading, ~isProviderInfoValid(data) \/ loading)
  /\ IF data.providerType = "organization"
     THEN /\ step' = "org-search"
          /\ draft' = SaveProgress(TRUE, step', data, draft)
          /\ UNCHANGED <<tasks, loading, error>>
     ELSE IF user
     THEN /\ Start(tasks, Task("commit", data, "submit"))
          /\ loading' = TRUE
          /\ error' = ""
          /\ UNCHANGED <<step, draft>>
     ELSE /\ step' = "auth"
          /\ UNCHANGED <<tasks, loading, error, draft>>
  /\ UNCHANGED <<propVars, peer, claimProfile, isOpen, data, authMode, otpCode, searchVars,
                 claimAutoCompleteRef, authVars, db, mergeVars,
                 resendCooldown>>


\* listings a search may return
SearchableIds == {"L1"}

\* the rows that pass .eq("claim_state", "unclaimed") of searchOrgs
Unclaimed(d) == {id \in SearchableIds : d.owner[id] = Null}

\* searchOrgs (the auto-search on entering org-search, or the Search button)
searchOrgs ==
  /\ Event
  /\ isOpen /\ step = "org-search"
  /\ \E found \in SUBSET Unclaimed(db) :
       /\ searchResults' = found
       /\ hasSearched' = TRUE
  /\ UNCHANGED <<propVars, peer, claimProfile, isOpen, uiVars, selectedOrgId,
                 claimAutoCompleteRef, authVars, tasks, draft, db,
                 mergeVars,
                 resendCooldown>>

\* a click on a search result: setSelectedOrgId(selectedOrgId === id ? null : id)
setSelectedOrgId(id) ==
  /\ Event
  /\ isOpen /\ step = "org-search" /\ hasSearched
  /\ id \in searchResults
  /\ selectedOrgId' = IF selectedOrgId = id THEN Null ELSE id
  /\ UNCHANGED <<propVars, peer, claimProfile, isOpen, uiVars, searchResults, hasSearched,
                 claimAutoCompleteRef, authVars, tasks, draft, db,
                 mergeVars,
                 resendCooldown>>

\* Continue of OrgSearchStep: the Button has neither loading nor disabled.
\* handleComplete runs in the closure of the render, whose data does not yet
\* hold the claimedProfileId handed to updateData.
handleOrgSearchNext ==
  /\ Event
  /\ isOpen /\ step = "org-search"
  /\ LET found == selectedOrgId # Null /\ selectedOrgId \in searchResults
     IN /\ data' = IF found
                   THEN Merge(data, [claimedProfileId |-> selectedOrgId])
                   ELSE data
        /\ IF user
           THEN /\ Start(tasks, Task("commit", data, "submit"))
                /\ loading' = TRUE
                /\ error' = ""
                /\ draft' = IF found
                            THEN SaveProgress(TRUE, step, data', draft)
                            ELSE draft
                /\ UNCHANGED step
           ELSE /\ step' = "auth"
                /\ UNCHANGED <<tasks, loading, error, draft>>
  /\ UNCHANGED <<propVars, peer, claimProfile, isOpen, authMode, otpCode, searchVars,
                 claimAutoCompleteRef, authVars, db, mergeVars,
                 resendCooldown>>

\* Continue of FamilyInfoStep (disabled={!isValid})
handleFamilyInfoNext ==
  /\ Event
  /\ isOpen /\ step = "family-info"
  /\ Len(Trim(data.displayName)) > 0
  /\ step' = "family-needs"
  /\ draft' = SaveProgress(TRUE, step', data, draft)
  /\ UNCHANGED <<propVars, peer, claimProfile, isOpen, data, error, loading, authMode,
                 otpCode, searchVars, claimAutoCompleteRef, authVars, tasks, db, mergeVars,
                 resendCooldown>>

\* a Continue of FamilyNeedsStep that goes to auth whoever the user is
handleFamilyNeedsNextToAuth ==
  /\ Event
  /\ isOpen /\ step = "family-needs"
  /\ ButtonEnabled(loading, FALSE)
  /\ step' = "auth"
  /\ UNCHANGED <<propVars, peer, claimProfile, isOpen, data, error, loading, authMode,
                 otpCode, searchVars, claimAutoCompleteRef, authVars, tasks, draft,
                 db, mergeVars,
                 resendCooldown>>

\* Continue of FamilyNeedsStep (loading={loading})
handleFamilyNeedsNext ==
  /\ Event
  /\ isOpen /\ step = "family-needs"
  /\ ButtonEnabled(loading, FALSE)
  /\ IF user
     THEN /\ Start(tasks, Task("commit", data, "submit"))
          /\ loading' = TRUE
          /\ error' = ""
          /\ UNCHANGED step
     ELSE /\ step' = "auth"
          /\ UNCHANGED <<tasks, loading, error>>
  /\ UNCHANGED <<propVars, peer, claimProfile, isOpen, data, authMode, otpCode, searchVars,
                 claimAutoCompleteRef, authVars, draft, db, mergeVars,
                 resendCooldown>>

\* Back of the progress header (rendered when showProgress and canGoBack) and
\* Back of AuthStep (always rendered)
goBack ==
  /\ Event
  /\ isOpen
  /\ \/ /\ showProgress(step, data)
        /\ canGoBack(step, claimProfile, initialIntent, initialProviderType)
     \/ step = "auth"
  /\ error' = ""
  /\ step' = goBackStep(step, data, claimProfile, initialIntent, initialProviderType)
  /\ otpCode' = IF step = "verify-code" THEN Empty ELSE otpCode
  /\ draft' = IF step' # step THEN SaveProgress(TRUE, step', data, draft) ELSE draft
  /\ UNCHANGED <<propVars, peer, claimProfile, isOpen, data, loading, authMode, searchVars,
                 claimAutoCompleteRef, authVars, tasks, db, mergeVars,
                 resendCooldown>>

\* "Use a different email" of VerifyCodeStep
onBackVerifyCode ==
  /\ Event
  /\ isOpen /\ step = "verify-code"
  /\ step' = "auth"
  /\ otpCode' = Empty
  /\ error' = ""
  /\ UNCHANGED <<propVars, peer, claimProfile, isOpen, data, loading, authMode, searchVars,
                 claimAutoCompleteRef, authVars, tasks, draft, db,
                 mergeVars,
                 resendCooldown>>

\* the sign-in / sign-up switch of AuthStep
setAuthMode(mode) ==
  /\ Event
  /\ isOpen /\ step = "auth"
  /\ authMode # mode
  /\ authMode' = mode
  /\ UNCHANGED <<propVars, peer, claimProfile, isOpen, step, data, error, loading, otpCode,
                 searchVars, claimAutoCompleteRef, authVars, tasks, draft, db, mergeVars,
                 resendCooldown>>

\* OtpInput (disabled={loading})
setOtpCode(code) ==
  /\ Event
  /\ isOpen /\ step = "verify-code"
  /\ ~loading
  /\ otpCode # code
  /\ otpCode' = code
  /\ UNCHANGED <<propVars, peer, claimProfile, isOpen, step, data, error, loading, authMode,
                 searchVars, claimAutoCompleteRef, authVars, tasks, draft, db, mergeVars,
                 resendCooldown>>


\* ------------------------------------------------------------ auth handlers
\* the form of AuthStep: both inputs are required, the submit Button has
\* loading={loading}
AuthFormSubmittable ==
  /\ isOpen /\ step = "auth"
  /\ ButtonEnabled(loading, FALSE)
  /\ data.email # Empty /\ data.password # Empty

\* a handleSignUp without the test of the password's length
PasswordAlwaysAccepted(password) == FALSE

\* if (data.password.length < 8)
PasswordTooShort(password) == Len(password) < 8

handleSignUp ==
  /\ Event
  /\ AuthFormSubmittable
  /\ authMode = "sign-up"
  /\ IF PasswordTooShort(data.password)
     THEN /\ error' = "password-too-short"
          /\ UNCHANGED <<loading, tasks>>
     ELSE /\ Start(tasks, Task("signUp", data, "submit"))
          /\ error' = ""
          /\ loading' = TRUE
  /\ UNCHANGED <<propVars, peer, claimProfile, isOpen, step, data, authMode, otpCode,
                 searchVars, claimAutoCompleteRef, authVars, draft, db,
                 mergeVars,
                 resendCooldown>>

handleSignIn ==
  /\ Event
  /\ AuthFormSubmittable
  /\ authMode = "sign-in"
  /\ Start(tasks, Task("signIn", data, "submit"))
  /\ error' = ""
  /\ loading' = TRUE
  /\ UNCHANGED <<propVars, peer, claimProfile, isOpen, step, data, authMode, otpCode,
                 searchVars, claimAutoCompleteRef, authVars, draft, db,
                 mergeVars,
                 resendCooldown>>

\* "Email me a code instead" (disabled={loading || !data.email.trim()})
handleSendOtpForSignIn ==
  /\ Event
  /\ isOpen /\ step = "auth" /\ authMode = "sign-in"
  /\ ~(loading \/ Len(Trim(data.email)) = 0)
  /\ Start(tasks, Task("sendOtpForSignIn", data, "submit"))
  /\ error' = ""
  /\ loading' = TRUE
  /\ UNCHANGED <<propVars, peer, claimProfile, isOpen, step, data, authMode, otpCode,
                 searchVars, claimAutoCompleteRef, authVars, draft, db,
                 mergeVars,
                 resendCooldown>>

\* "Verify & complete setup" (loading={loading}, disabled={otpCode.length !== 8});
\* the handler's own test of otpCode.length is passed whenever the button
\* takes the click
handleVerifyOtp ==
  /\ Event
  /\ isOpen /\ step = "verify-code"
  /\ ButtonEnabled(loading, Len(otpCode) # 8)
  /\ Start(tasks, Task("verifyOtp", data, "submit"))
  /\ error' = ""
  /\ loading' = TRUE
  /\ UNCHANGED <<propVars, peer, claimProfile, isOpen, step, data, authMode, otpCode,
                 searchVars, claimAutoCompleteRef, authVars, draft, db,
                 mergeVars,
                 resendCooldown>>

\* a handleResendCode without the test of the cooldown
ResendAllowedAlways(cooldown) == TRUE

\* if (resendCooldown > 0) return; the button is rendered at 0 only
ResendAllowed(cooldown) == ~(cooldown > 0)

\* "Resend code" (disabled={loading})
handleResendCode ==
  /\ Event
  /\ isOpen /\ step = "verify-code"
  /\ ~loading
  /\ ResendAllowed(resendCooldown)
  /\ Start(tasks, Task("resend", data, "submit"))
  /\ error' = ""
  /\ loading' = TRUE
  /\ UNCHANGED <<propVars, peer, claimProfile, isOpen, step, data, authMode, otpCode,
                 searchVars, claimAutoCompleteRef, authVars, draft, db,
                 mergeVars,
                 resendCooldown>>

\* --------------------------------------------------- gateway resolutions
\* a handler that ends with setError(e) and leaves loading set
FailTaskKeepsLoading(i, e) ==
  /\ tasks' = RemoveAt(tasks, i)
  /\ error' = e
  /\ UNCHANGED loading

\* a handler ends with setError(e) and setLoading(false)
FailTask(i, e) ==
  /\ tasks' = RemoveAt(tasks, i)
  /\ error' = e
  /\ loading' = FALSE

\* a handler goes on into handleComplete: setLoading(true), setError("")
IntoComplete(i) ==
  /\ tasks' = [tasks EXCEPT ![i].pc = "commit"]
  /\ error' = ""
  /\ loading' = TRUE

SignUpOutcomes == {"registered", "error", "no-identities", "verify", "session", "throw"}

\* supabase.auth.signUp resolves in handleSignUp
SignUpResolve(i, outcome) ==
  /\ Event
  /\ i \in DOMAIN tasks /\ tasks[i].pc = "signUp"
  /\ outcome \in SignUpOutcomes
  /\ CASE outcome = "registered" -> FailTask(i, "already-registered") /\ UNCHANGED session
       [] outcome = "error" -> FailTask(i, "auth-error") /\ UNCHANGED session
       [] outcome = "no-identities" ->
            FailTask(i, "already-registered") /\ UNCHANGED session
       [] outcome = "throw" -> FailTask(i, "something-went-wrong") /\ UNCHANGED session
       [] outcome = "verify" ->
            /\ tasks' = [tasks EXCEPT ![i].pc = "signUpOtp"]
            /\ UNCHANGED <<error, loading, session>>
       [] outcome = "session" -> IntoComplete(i) /\ session' = TRUE
  /\ UNCHANGED <<propVars, peer, claimProfile, isOpen, step, data, authMode, otpCode,
                 searchVars, claimAutoCompleteRef, user, account, draft, db, mergeVars,
                 resendCooldown>>

\* supabase.auth.signInWithOtp resolves in handleSignUp (its error is logged only)
SignUpOtpResolve(i, thrown) ==
  /\ Event
  /\ i \in DOMAIN tasks /\ tasks[i].pc = "signUpOtp"
  /\ IF thrown
     THEN FailTask(i, "something-went-wrong") /\ UNCHANGED <<step, resendCooldown>>
     ELSE /\ tasks' = RemoveAt(tasks, i)
          /\ resendCooldown' = FIRST_SEND_COOLDOWN
          /\ loading' = FALSE
          /\ step' = "verify-code"
          /\ UNCHANGED error
  /\ UNCHANGED <<propVars, peer, claimProfile, isOpen, data, authMode, otpCode, searchVars,
                 claimAutoCompleteRef, authVars, draft, db, mergeVars>>

\* a handleSignIn that sends a successful sign-in on to verify-code
SignInResolveToVerify(i, outcome) ==
  /\ Event
  /\ i \in DOMAIN tasks /\ tasks[i].pc = "signIn"
  /\ outcome \in {"ok", "invalid", "throw"}
  /\ CASE outcome = "invalid" ->
            FailTask(i, "wrong-credentials") /\ UNCHANGED <<session, step>>
       [] outcome = "throw" ->
            FailTask(i, "something-went-wrong") /\ UNCHANGED <<session, step>>
       [] outcome = "ok" ->
            /\ tasks' = RemoveAt(tasks, i)
            /\ loading' = FALSE
            /\ step' = "verify-code"
            /\ session' = TRUE
            /\ UNCHANGED error
  /\ UNCHANGED <<propVars, peer, claimProfile, isOpen, data, authMode, otpCode,
                 searchVars, claimAutoCompleteRef, user, account, draft, db,
                 mergeVars,
                 resendCooldown>>

\* supabase.auth.signInWithPassword resolves in handleSignIn
SignInResolve(i, outcome) ==
  /\ Event
  /\ i \in DOMAIN tasks /\ tasks[i].pc = "signIn"
  /\ outcome \in {"ok", "invalid", "throw"}
  /\ CASE outcome = "invalid" -> FailTask(i, "wrong-credentials") /\ UNCHANGED session
       [] outcome = "throw" -> FailTask(i, "something-went-wrong") /\ UNCHANGED session
       [] outcome = "ok" -> IntoComplete(i) /\ session' = TRUE
  /\ UNCHANGED <<propVars, peer, claimProfile, isOpen, step, data, authMode, otpCode,
                 searchVars, claimAutoCompleteRef, user, account, draft, db, mergeVars,
                 resendCooldown>>

\* supabase.auth.signInWithOtp resolves in handleSendOtpForSignIn
SendOtpForSignInResolve(i, outcome) ==
  /\ Event
  /\ i \in DOMAIN tasks /\ tasks[i].pc = "sendOtpForSignIn"
  /\ outcome \in {"ok", "not-found", "throw"}
  /\ CASE outcome = "not-found" ->
            FailTask(i, "no-account") /\ UNCHANGED <<step, resendCooldown>>
       [] outcome = "throw" ->
            FailTask(i, "failed-to-send") /\ UNCHANGED <<step, resendCooldown>>
       [] outcome = "ok" ->
            /\ tasks' = RemoveAt(tasks, i)
            /\ resendCooldown' = FIRST_SEND_COOLDOWN
            /\ loading' = FALSE
            /\ step' = "verify-code"
            /\ UNCHANGED error
  /\ UNCHANGED <<propVars, peer, claimProfile, isOpen, data, authMode, otpCode, searchVars,
                 claimAutoCompleteRef, authVars, draft, db, mergeVars>>

\* supabase.auth.verifyOtp resolves in handleVerifyOtp
VerifyOtpResolve(i, outcome) ==
  /\ Event
  /\ i \in DOMAIN tasks /\ tasks[i].pc = "verifyOtp"
  /\ outcome \in {"ok", "expired", "invalid", "throw"}
  /\ CASE outcome = "expired" -> FailTask(i, "code-expired") /\ UNCHANGED session
       [] outcome = "invalid" -> FailTask(i, "code-invalid") /\ UNCHANGED session
       [] outcome = "throw" -> FailTask(i, "something-went-wrong") /\ UNCHANGED session
       [] outcome = "ok" -> IntoComplete(i) /\ session' = TRUE
  /\ UNCHANGED <<propVars, peer, claimProfile, isOpen, step, data, authMode, otpCode,
                 searchVars, claimAutoCompleteRef, user, account, draft, db, mergeVars,
                 resendCooldown>>

\* supabase.auth.signInWithOtp resolves in handleResendCode
ResendResolve(i, outcome) ==
  /\ Event
  /\ i \in DOMAIN tasks /\ tasks[i].pc = "resend"
  /\ outcome \in {"ok", "error", "throw"}
  /\ CASE outcome = "error" ->
            FailTask(i, "resend-error") /\ UNCHANGED <<otpCode, resendCooldown>>
       [] outcome = "throw" ->
            FailTask(i, "failed-to-resend") /\ UNCHANGED <<otpCode, resendCooldown>>
       [] outcome = "ok" ->
            /\ tasks' = RemoveAt(tasks, i)
            /\ resendCooldown' = RESEND_COOLDOWN
            /\ loading' = FALSE
            /\ otpCode' = Empty
            /\ UNCHANGED error
  /\ UNCHANGED <<propVars, peer, claimProfile, isOpen, step, data, authMode, searchVars,
                 claimAutoCompleteRef, authVars, draft, db, mergeVars>>


\* ------------------------------------------------------------- claim merge
\* the optional fields of claimUpdate in createProviderProfile
ClaimFields ==
  {"display_name", "city", "state", "zip", "care_types", "description", "phone"}

\* s.x?.trim() is falsy
BlankOrMissing(v) == v = NullText \/ Len(Trim(v)) = 0

\* a claimUpdate that takes every flow value, whatever the snapshot holds
ClaimFieldWrittenAlways(k, s, d) ==
  CASE k = "display_name" -> Truthy(d.orgName)
    [] k = "city" -> Truthy(d.city)
    [] k = "state" -> Truthy(d.state)
    [] k = "zip" -> Truthy(d.zip)
    [] k = "care_types" -> Len(d.careTypes) > 0
    [] k = "description" -> Truthy(d.description)
    [] k = "phone" -> Truthy(d.phone)

\* the condition under which createProviderProfile sets claimUpdate[k]
ClaimFieldWritten(k, s, d) ==
  CASE k = "display_name" -> BlankOrMissing(s.display_name) /\ Truthy(d.orgName)
    [] k = "city" -> ~Truthy(s.city) /\ Truthy(d.city)
    [] k = "state" -> ~Truthy(s.state) /\ Truthy(d.state)
    [] k = "zip" -> ~Truthy(s.zip) /\ Truthy(d.zip)
    [] k = "care_types" ->
         (s.care_types = NullText \/ Len(s.care_types) = 0) /\ Len(d.careTypes) > 0
    [] k = "description" -> BlankOrMissing(s.description) /\ Truthy(d.description)
    [] k = "phone" -> ~Truthy(s.phone) /\ Truthy(d.phone)

\* the flow value createProviderProfile writes for claimUpdate[k]
ClaimFieldValue(k, d) ==
  CASE k = "display_name" -> d.orgName
    [] k = "city" -> d.city
    [] k = "state" -> d.state
    [] k = "zip" -> d.zip
    [] k = "care_types" -> d.careTypes
    [] k = "description" -> d.description
    [] k = "phone" -> d.phone

\* claimUpdate: the record handed to business_profiles.update
ClaimUpdate(s, d, accountId) ==
  LET written == {k \in ClaimFields : ClaimFieldWritten(k, s, d)}
  IN [k \in written \cup {"account_id", "claim_state"} |->
        IF k = "account_id" THEN accountId
        ELSE IF k = "claim_state" THEN "pending"
        ELSE ClaimFieldValue(k, d)]

\* the row of the claimed profile after business_profiles.update(claimUpdate)
Updated(s, u) ==
  [k \in DOMAIN s \cup DOMAIN u |-> IF k \in DOMAIN u THEN u[k] ELSE s[k]]

\* business_profiles.update(claimUpdate).eq("id", data.claimedProfileId): the
\* row of that id takes account_id (and claim_state "pending") whatever it held
ClaimWrite(d, id, accountId) == [d EXCEPT !.owner[id] = accountId]

\* createProviderProfile takes the claim branch
\* a createProviderProfile that never takes the claim branch
IsClaimNever(d) == FALSE

IsClaim(d) == d.claimedProfileId # Null

\* -------------------------------------------------------------- the commit
\* a handleComplete whose last branch creates a family profile
IsFamilyByDefault(d) == d.intent # "provider"

\* else if (data.intent === "family")
IsFamily(d) == d.intent = "family"

\* the storage calls of handleComplete that may fail
CommitFailures ==
  {"none", "ensure", "profile", "account", "membership", "draft"}

\* a createProviderProfile that inserts every row as an organization
ProviderRowOfOrganization(d) ==
  <<[type |-> "organization",
     claim_state |-> "pending",
     verification_state |-> "unverified",
     care_types |-> d.careTypes]>>

\* the row createProviderProfile inserts into business_profiles
ProviderRow(d) ==
  <<[type |-> IF d.providerType = "caregiver" THEN "caregiver" ELSE "organization",
     claim_state |-> "pending",
     verification_state |-> "unverified",
     care_types |-> d.careTypes]>>

\* a createFamilyProfile that inserts the row with the claim state of a provider
FamilyRowPending(d) ==
  <<[type |-> "family", claim_state |-> "pending",
     verification_state |-> "unverified", care_types |-> d.careNeeds]>>

\* the row createFamilyProfile inserts into business_profiles
FamilyRow(d) ==
  <<[type |-> "family", claim_state |-> "claimed",
     verification_state |-> "unverified", care_types |-> d.careNeeds]>>

\* the membership handleComplete writes for a provider
FreeMembership == [plan |-> "free", status |-> "free"]

\* the membership the create-profile page inserts for an account without one
TrialMembership == [plan |-> "pro", status |-> "trialing"]

\* memberships.upsert(m, { onConflict: "account_id" }) on the rows of the
\* account: the row in conflict takes the values of m, else m is inserted
Upsert(rows, m) ==
  IF rows = <<>> THEN <<m>> ELSE [n \in DOMAIN rows |-> m]

\* the ids the store gives to inserted rows
ProfileIds == <<"P1", "P2", "P3", "P4", "P5", "P6", "P7", "P8">>

\* the modal is closed by onClose() at the end of handleComplete
CloseByCommit ==
  IF isOpen
  THEN /\ isOpen' = FALSE
       /\ ResetState(claimProfile)
       /\ claimAutoCompleteRef' = FALSE
  ELSE UNCHANGED <<isOpen, step, data, error, loading, authMode, otpCode,
                   resendCooldown, searchVars, claimAutoCompleteRef>>

\* a commit ends in its catch block or at one of its early returns
CommitEndsWith(i, e, db1) ==
  /\ FailTask(i, e)
  /\ db' = db1
  /\ UNCHANGED <<isOpen, step, data, authMode, otpCode, resendCooldown,
                 searchVars, claimAutoCompleteRef, account, draft>>

\* handleComplete from supabase.auth.getUser() to its end; failAt names the
\* storage call that fails. The result of the membership upsert is not read and
\* an exception of localStorage.removeItem is caught and ignored: after either
\* failure the commit goes on to its end.
CommitResolve(i, failAt) ==
  /\ Event
  /\ i \in DOMAIN tasks /\ tasks[i].pc = "commit"
  /\ failAt \in CommitFailures
  /\ LET t == tasks[i]
         provider == t.snap.intent = "provider"
         family == IsFamily(t.snap)
         claim == provider /\ IsClaim(t.snap)
         profileId == IF claim THEN t.snap.claimedProfileId
                      ELSE ProfileIds[db.inserted + 1]
         db1 == [db EXCEPT !.account = TRUE]
         db2 == IF claim
                THEN [ClaimWrite(db1, profileId, AccountId)
                        EXCEPT !.claimUpdates = @ + 1,
                               !.claimed = @ \cup {profileId}]
                ELSE [db1 EXCEPT !.inserted = @ + 1,
                                 !.row = IF provider THEN ProviderRow(t.snap)
                                         ELSE FamilyRow(t.snap)]
         db3 == [db2 EXCEPT !.active = profileId, !.onboarding = TRUE]
         db4 == IF provider /\ failAt # "membership"
                THEN [db3 EXCEPT !.membership = TRUE,
                                 !.memberships = Upsert(@, FreeMembership)]
                ELSE db3
     IN IF ~session THEN CommitEndsWith(i, "not-authenticated", db)
        ELSE IF failAt = "ensure"
        THEN ~t.acct /\ CommitEndsWith(i, "commit-failed", db)
        ELSE IF ~provider /\ ~family
        THEN failAt = "none" /\ CommitEndsWith(i, "missing-intent", db1)
        ELSE IF failAt = "profile" THEN CommitEndsWith(i, "commit-failed", db1)
        ELSE IF failAt = "account" THEN CommitEndsWith(i, "commit-failed", db2)
        ELSE /\ failAt = "membership" => provider
             /\ failAt = "draft" => draft # NoDraft
             /\ db' = db4
             /\ draft' = IF failAt = "draft" THEN draft ELSE NoDraft
             /\ account' = IF t.usr THEN TRUE ELSE account
             /\ tasks' = RemoveAt(tasks, i)
             /\ CloseByCommit
  /\ UNCHANGED <<propVars, peer, claimProfile, user, session, mergeVars>>


\* ------------------------------------------------------------ specification
Next ==
  \/ Tick
  \/ CooldownTimer(TimerSeconds)
  \/ Open
  \/ Close
  \/ AuthStateChange
  \/ ClaimProfileChange
  \/ updateData
  \/ \E intent \in UserIntent : handleIntentSelect(intent)
  \/ \E type \in ProviderType : handleProviderTypeSelect(type)
  \/ handleProviderInfoNext
  \/ searchOrgs
  \/ \E id \in SearchableIds : setSelectedOrgId(id)
  \/ handleOrgSearchNext
  \/ handleFamilyInfoNext
  \/ handleFamilyNeedsNext
  \/ goBack
  \/ onBackVerifyCode
  \/ \E mode \in {"sign-up", "sign-in"} : setAuthMode(mode)
  \/ \E code \in {Empty, Code8} : setOtpCode(code)
  \/ handleSignUp
  \/ handleSignIn
  \/ handleSendOtpForSignIn
  \/ handleVerifyOtp
  \/ handleResendCode
  \/ \E i \in 1..MaxTasks, outcome \in SignUpOutcomes : SignUpResolve(i, outcome)
  \/ \E i \in 1..MaxTasks, thrown \in BOOLEAN : SignUpOtpResolve(i, thrown)
  \/ \E i \in 1..MaxTasks, outcome \in {"ok", "invalid", "throw"} :
       SignInResolve(i, outcome)
  \/ \E i \in 1..MaxTasks, outcome \in {"ok", "not-found", "throw"} :
       SendOtpForSignInResolve(i, outcome)
  \/ \E i \in 1..MaxTasks, outcome \in {"ok", "expired", "invalid", "throw"} :
       VerifyOtpResolve(i, outcome)
  \/ \E i \in 1..MaxTasks, outcome \in {"ok", "error", "throw"} :
       ResendResolve(i, outcome)
  \/ \E i \in 1..MaxTasks, failAt \in CommitFailures : CommitResolve(i, failAt)

Spec == Init /\ [][Next]_vars

\* ------------------------------------------- specification of the claim merge
\* the claim branch of createProviderProfile as a function of its inputs
SnapshotInputs ==
  [display_name : {Empty, Blank, Sunrise},
   city : {NullText, Empty, Austin},
   state : {Empty, <<"TX">>},
   zip : {Empty, <<"78701">>},
   care_types : {<<>>, <<"Memory Care">>},
   category : {NullText, <<"assisted_living">>},
   description : {Empty, Blank, <<"Existing">>},
   phone : {NullText, <<"512">>}]

FlowDataInputs ==
  {Merge(INITIAL_DATA,
         [intent |-> "provider", providerType |-> "organization",
          claimedProfileId |-> "L1",
          orgName |-> names[1], description |-> names[2],
          city |-> place[1], state |-> place[2], zip |-> place[3],
          careTypes |-> contact[1], phone |-> contact[2],
          category |-> kind]) :
     kind \in {NullText, <<"home_care_agency">>},
     names \in {<<Empty, Empty>>, <<Jane, <<"New">>>>},
     place \in {<<Empty, Empty, Empty>>, <<Dallas, <<"TX">>, <<"75201">>>>},
     contact \in {<<<<>>, Empty>>, <<<<"Home Care">>, Phone>>}}

InitMerge ==
  /\ InitFlow(Null, Null, Null, FALSE)
  /\ mergeSnapshot \in SnapshotInputs
  /\ mergeData \in FlowDataInputs
  /\ mergeUpdate = <<>>

\* createProviderProfile builds claimUpdate for the claimed snapshot
createProviderProfileClaim ==
  /\ Event
  /\ mergeUpdate = <<>>
  /\ IsClaim(mergeData)
  /\ mergeUpdate' = <<ClaimUpdate(mergeSnapshot, mergeData, "account-1")>>
  /\ UNCHANGED <<propVars, peer, claimProfile, isOpen, uiVars, searchVars,
                 claimAutoCompleteRef, authVars, tasks, draft, db,
                 mergeSnapshot, mergeData, resendCooldown>>

NextMerge == createProviderProfileClaim

SpecMerge == InitMerge /\ [][NextMerge]_vars

\* ------------------------------- specification of the organization flow
\* An open flow on step s with FlowData d and nothing in flight
MidFlow(ii, ipt, u, s, d) ==
  /\ initialIntent = ii
  /\ initialProviderType = ipt
  /\ claimProfile = Null
  /\ isOpen = TRUE
  /\ step = s
  /\ data = d
  /\ error = ""
  /\ loading = FALSE
  /\ authMode = InitialAuthMode
  /\ otpCode = Empty
  /\ searchResults = {}
  /\ hasSearched = FALSE
  /\ selectedOrgId = Null
  /\ claimAutoCompleteRef = FALSE
  /\ user = u
  /\ account = u
  /\ session = u
  /\ tasks = <<>>
  /\ events = 0
  /\ resendCooldown = 0
  /\ draft = SaveProgress(TRUE, s, d, NoDraft)
  /\ peer = NoPeer
  /\ db = [account |-> u, inserted |-> 0, claimUpdates |-> 0, membership |-> FALSE,
           memberships |-> <<>>, claimed |-> {}, owner |-> NoOwner,
           row |-> NoRow, active |-> Null, onboarding |-> FALSE]

\* the FlowData of an organization that has filled in ProviderInfoStep
OrgInfoData ==
  Merge(InitialData(Null, "provider", "organization"),
        [orgName |-> Sunrise, careTypes |-> <<"Home Care">>, phone |-> Phone,
         city |-> Austin])

\* the flow of an organization, nobody signed in, has come to org-search
InitOrg ==
  /\ MidFlow("provider", "organization", FALSE, "org-search", OrgInfoData)
  /\ MergeIdle

NextOrg ==
  \/ Tick
  \/ CooldownTimer(TimerSeconds)
  \/ Open
  \/ Close
  \/ AuthStateChange
  \/ updateData
  \/ handleProviderInfoNext
  \/ searchOrgs
  \/ \E id \in SearchableIds : setSelectedOrgId(id)
  \/ handleOrgSearchNext
  \/ goBack
  \/ onBackVerifyCode
  \/ \E mode \in {"sign-up", "sign-in"} : setAuthMode(mode)
  \/ \E code \in {Empty, Code8} : setOtpCode(code)
  \/ handleSignUp
  \/ handleSignIn
  \/ handleSendOtpForSignIn
  \/ handleVerifyOtp
  \/ handleResendCode
  \/ \E i \in 1..MaxTasks, outcome \in SignUpOutcomes : SignUpResolve(i, outcome)
  \/ \E i \in 1..MaxTasks, thrown \in BOOLEAN : SignUpOtpResolve(i, thrown)
  \/ \E i \in 1..MaxTasks, outcome \in {"ok", "invalid", "throw"} :
       SignInResolve(i, outcome)
  \/ \E i \in 1..MaxTasks, outcome \in {"ok", "not-found", "throw"} :
       SendOtpForSignInResolve(i, outcome)
  \/ \E i \in 1..MaxTasks, outcome \in {"ok", "expired", "invalid", "throw"} :
       VerifyOtpResolve(i, outcome)
  \/ \E i \in 1..MaxTasks, outcome \in {"ok", "error", "throw"} :
       ResendResolve(i, outcome)
  \/ \E i \in 1..MaxTasks, failAt \in CommitFailures : CommitResolve(i, failAt)

SpecOrg == InitOrg /\ [][NextOrg]_vars

\* -------------------------------------------- specification of the commit
\* handleComplete as a function of the FlowData it is rendered with
CommitInputs ==
  {Merge(INITIAL_DATA,
         [intent |-> it, providerType |-> pt, displayName |-> Jane,
          careNeeds |-> cn, claimedProfileId |-> id]) :
     it \in UserIntent \cup {Null}, pt \in ProviderType \cup {Null},
     cn \in {<<>>, <<"Memory Care">>}, id \in {Null, "L1"}}

\* the profile the create-profile page has made the active one
CreatedProfile == "P0"

\* an open flow in which a handler has called handleComplete; the account of a
\* signed-in user may hold the trial membership of the create-profile page
InitCommit ==
  /\ \E d \in CommitInputs, u \in BOOLEAN, s \in {"auth", "verify-code"},
        stored \in BOOLEAN, held \in {<<>>, <<TrialMembership>>} :
       /\ d.claimedProfileId # Null =>
            d.intent = "provider" /\ d.providerType = "organization"
       /\ held # <<>> => u
       /\ initialIntent = Null
       /\ initialProviderType = Null
       /\ claimProfile = Null
       /\ isOpen = TRUE
       /\ step = s
       /\ data = d
       /\ error = ""
       /\ loading = TRUE
       /\ authMode = InitialAuthMode
       /\ otpCode = IF s = "verify-code" THEN Code8 ELSE Empty
       /\ searchResults = {}
       /\ hasSearched = FALSE
       /\ selectedOrgId = Null
       /\ claimAutoCompleteRef = FALSE
       /\ user = u
       /\ account = u
       /\ session = TRUE
       /\ tasks = <<[pc |-> "commit", snap |-> d, acct |-> u, usr |-> u,
                     origin |-> "submit", cur |-> TRUE]>>
       /\ events = 0
       /\ resendCooldown = 0
       /\ draft = IF stored THEN <<toSave("intent", d)>> ELSE NoDraft
       /\ peer = NoPeer
       /\ db = [account |-> u, inserted |-> 0, claimUpdates |-> 0,
                membership |-> held # <<>>, memberships |-> held,
                claimed |-> {}, owner |-> NoOwner, row |-> NoRow,
                active |-> IF held # <<>> THEN CreatedProfile ELSE Null,
                onboarding |-> held # <<>>]
  /\ MergeIdle

NextCommit ==
  \E i \in 1..MaxTasks, failAt \in CommitFailures : CommitResolve(i, failAt)

SpecCommit == InitCommit /\ [][NextCommit]_vars

\* ------------------------------------- specification of the stored draft
\* the data of the items an earlier flow may have left under STORAGE_KEY
DraftInputs ==
  {[k \in DraftKeys |->
      CASE k = "intent" -> it
        [] k = "providerType" -> IF it = "provider" THEN "caregiver" ELSE Null
        [] k = "displayName" -> name
        [] k = "city" -> city
        [] k \in {"careTypes", "careNeeds"} -> <<>>
        [] OTHER -> Empty] :
     it \in UserIntent \cup {Null}, name \in {Empty, Jane}, city \in {Empty, Dallas}}

\* the step the closed flow is on: the computed initial step, or verify-code
\* set by a code request answered after the close
ClosedSteps(ii, ipt) == {getInitialStep(Null, ii, ipt), "verify-code"}

\* a closed flow without claim target, nobody signed in, and an item in the
\* store
InitDraft ==
  /\ \E ii \in UserIntent \cup {Null}, ipt \in ProviderType \cup {Null},
        dd \in DraftInputs, age \in {0, 2 * TickMinutes} :
       \E s \in ClosedSteps(ii, ipt) :
         /\ initialIntent = ii
         /\ initialProviderType = ipt
         /\ claimProfile = Null
         /\ isOpen = FALSE
         /\ step = s
         /\ data = InitialData(Null, ii, ipt)
         /\ error = ""
         /\ loading = FALSE
         /\ authMode = InitialAuthMode
         /\ otpCode = Empty
         /\ searchResults = {}
         /\ hasSearched = FALSE
         /\ selectedOrgId = Null
         /\ claimAutoCompleteRef = FALSE
         /\ user = FALSE
         /\ account = FALSE
         /\ session = FALSE
         /\ tasks = <<>>
         /\ events = 0
         /\ resendCooldown = 0
         /\ draft = <<[step |-> "family-info", data |-> dd, age |-> age]>>
         /\ peer = NoPeer
         /\ db = [account |-> FALSE, inserted |-> 0, claimUpdates |-> 0,
                  membership |-> FALSE, memberships |-> <<>>,
                  claimed |-> {}, owner |-> NoOwner, row |-> NoRow,
                  active |-> Null, onboarding |-> FALSE]
  /\ MergeIdle

NextDraft ==
  \/ Tick
  \/ Open
  \/ Close
  \/ updateData
  \/ \E intent \in UserIntent : handleIntentSelect(intent)
  \/ handleFamilyInfoNext
  \/ goBack
  \/ onBackVerifyCode

SpecDraft == InitDraft /\ [][NextDraft]_vars

\* -------------------------------- specification of the resend cooldown
\* a family flow of nobody signed in, with name and email entered
VerifyData ==
  Merge(InitialData(Null, "family", Null),
        [displayName |-> Jane, email |-> Mail, password |-> Pass8])

\* the flow is on verify-code, a code was sent c seconds of cooldown ago (the
\* first send leaves at most FIRST_SEND_COOLDOWN, a resend at most
\* RESEND_COOLDOWN); the draft is the one written on family-needs
InitResend ==
  /\ \E c \in 0..RESEND_COOLDOWN, mode \in {"sign-up", "sign-in"} :
       /\ resendCooldown = c
       /\ authMode = mode
  /\ initialIntent = "family"
  /\ initialProviderType = Null
  /\ claimProfile = Null
  /\ isOpen = TRUE
  /\ step = "verify-code"
  /\ data = VerifyData
  /\ error = ""
  /\ loading = FALSE
  /\ otpCode = Empty
  /\ searchResults = {}
  /\ hasSearched = FALSE
  /\ selectedOrgId = Null
  /\ claimAutoCompleteRef = FALSE
  /\ user = FALSE
  /\ account = FALSE
  /\ session = FALSE
  /\ tasks = <<>>
  /\ events = 0
  /\ draft = <<toSave("family-needs", VerifyData)>>
  /\ peer = NoPeer
  /\ db = [account |-> FALSE, inserted |-> 0, claimUpdates |-> 0, membership |-> FALSE,
           memberships |-> <<>>, claimed |-> {}, owner |-> NoOwner,
           row |-> NoRow, active |-> Null, onboarding |-> FALSE]
  /\ MergeIdle

\* the timer fires once a second; every sign-up asks for the confirmation of the
\* email (no session is returned)
NextResend ==
  \/ CooldownTimer(1)
  \/ Close
  \/ onBackVerifyCode
  \/ \E mode \in {"sign-up", "sign-in"} : setAuthMode(mode)
  \/ handleSignUp
  \/ handleSendOtpForSignIn
  \/ handleResendCode
  \/ \E i \in 1..MaxTasks, outcome \in SignUpOutcomes \ {"session"} :
       SignUpResolve(i, outcome)
  \/ \E i \in 1..MaxTasks, thrown \in BOOLEAN : SignUpOtpResolve(i, thrown)
  \/ \E i \in 1..MaxTasks, outcome \in {"ok", "not-found", "throw"} :
       SendOtpForSignInResolve(i, outcome)
  \/ \E i \in 1..MaxTasks, outcome \in {"ok", "error", "throw"} :
       ResendResolve(i, outcome)

SpecResend == InitResend /\ [][NextResend]_vars

\* ------------------------------- specification of the reopened flow
\* the closed flows of InitDraft are opened again, and the user signs in
NextReopen ==
  \/ Tick
  \/ Open
  \/ updateData
  \/ \E intent \in UserIntent : handleIntentSelect(intent)
  \/ handleFamilyInfoNext
  \/ handleFamilyNeedsNext
  \/ onBackVerifyCode
  \/ \E mode \in {"sign-up", "sign-in"} : setAuthMode(mode)
  \/ handleSignIn
  \/ \E i \in 1..MaxTasks, outcome \in {"ok", "invalid", "throw"} :
       SignInResolve(i, outcome)
  \/ \E i \in 1..MaxTasks, failAt \in CommitFailures : CommitResolve(i, failAt)

SpecReopen == InitDraft /\ [][NextReopen]_vars

\* -------------------------------- specification of the client-side tests
\* the FlowData of a caregiver on provider-info, with each required field
\* empty or filled
ProviderInfoInputs ==
  {Merge(InitialData(Null, "provider", "caregiver"),
         [displayName |-> name, city |-> city, careTypes |-> types,
          phone |-> phone]) :
     name \in {Empty, Blank, Jane}, city \in {Empty, Austin},
     types \in {<<>>, <<"Home Care">>}, phone \in {Empty, Phone}}

\* an open flow of a caregiver, nobody signed in: on provider-info with any of
\* these FlowData, or past it on auth or verify-code with a password of 3 or of
\* 8 characters and a code field of 0, 3 or 8 characters
InitValidation ==
  /\ \E d \in ProviderInfoInputs, s \in {"provider-info", "auth", "verify-code"},
        pw \in {Pass3, Pass8}, code \in {Empty, Code3, Code8} :
       /\ s # "provider-info" => isProviderInfoValid(d)
       /\ s # "verify-code" => code = Empty
       /\ s = "provider-info" => pw = Pass8
       /\ step = s
       /\ data = IF s = "provider-info" THEN d
                 ELSE Merge(d, [email |-> Mail, password |-> pw])
       /\ otpCode = code
       /\ draft = <<toSave("provider-info", d)>>
  /\ initialIntent = "provider"
  /\ initialProviderType = "caregiver"
  /\ claimProfile = Null
  /\ isOpen = TRUE
  /\ error = ""
  /\ loading = FALSE
  /\ authMode = InitialAuthMode
  /\ searchResults = {}
  /\ hasSearched = FALSE
  /\ selectedOrgId = Null
  /\ claimAutoCompleteRef = FALSE
  /\ user = FALSE
  /\ account = FALSE
  /\ session = FALSE
  /\ tasks = <<>>
  /\ events = 0
  /\ resendCooldown = 0
  /\ peer = NoPeer
  /\ db = [account |-> FALSE, inserted |-> 0, claimUpdates |-> 0,
           membership |-> FALSE, memberships |-> <<>>,
           claimed |-> {}, owner |-> NoOwner, row |-> NoRow,
           active |-> Null, onboarding |-> FALSE]
  /\ MergeIdle

NextValidation ==
  \/ updateData
  \/ handleProviderInfoNext
  \/ goBack
  \/ \E code \in {Empty, Code3, Code8} : setOtpCode(code)
  \/ handleSignUp
  \/ handleVerifyOtp
  \/ \E i \in 1..MaxTasks, outcome \in SignUpOutcomes : SignUpResolve(i, outcome)
  \/ \E i \in 1..MaxTasks, thrown \in BOOLEAN : SignUpOtpResolve(i, thrown)
  \/ \E i \in 1..MaxTasks, outcome \in {"ok", "expired", "invalid", "throw"} :
       VerifyOtpResolve(i, outcome)
  \/ \E i \in 1..MaxTasks, failAt \in CommitFailures : CommitResolve(i, failAt)

SpecValidation == InitValidation /\ [][NextValidation]_vars

\* ------------------------------- specification of two claiming accounts
\* The same flow runs in the browser of a second account that is not signed
\* in; of its state the model keeps what decides its write to the shared
\* business_profiles table.
PeerUnchanged ==
  UNCHANGED <<propVars, claimProfile, isOpen, uiVars, searchVars,
              claimAutoCompleteRef, authVars, tasks, draft, mergeVars,
              resendCooldown>>

\* searchOrgs of the second flow
peerSearchOrgs ==
  /\ Event
  /\ peer.pc = "org-search"
  /\ \E found \in SUBSET Unclaimed(db) :
       peer' = [peer EXCEPT !.searchResults = found]
  /\ UNCHANGED db
  /\ PeerUnchanged

\* setSelectedOrgId(id) and handleOrgSearchNext of the second flow: the
\* selected result becomes claimedProfileId and the flow goes to auth
peerOrgSearchNext(id) ==
  /\ Event
  /\ peer.pc = "org-search"
  /\ id \in peer.searchResults
  /\ peer' = [peer EXCEPT !.claimedProfileId = id, !.pc = "auth"]
  /\ UNCHANGED db
  /\ PeerUnchanged

\* the second account signs in and its handleComplete reaches the claim
\* branch of createProviderProfile
peerCommitResolve ==
  /\ Event
  /\ peer.pc = "auth"
  /\ db' = ClaimWrite(db, peer.claimedProfileId, PeerAccountId)
  /\ peer' = [peer EXCEPT !.pc = "done"]
  /\ PeerUnchanged

NextPeer ==
  \/ updateData
  \/ searchOrgs
  \/ \E id \in SearchableIds : setSelectedOrgId(id)
  \/ handleOrgSearchNext
  \/ \E mode \in {"sign-up", "sign-in"} : setAuthMode(mode)
  \/ handleSignIn
  \/ \E i \in 1..MaxTasks, outcome \in {"ok", "invalid", "throw"} :
       SignInResolve(i, outcome)
  \/ \E i \in 1..MaxTasks, failAt \in CommitFailures : CommitResolve(i, failAt)
  \/ peerSearchOrgs
  \/ \E id \in SearchableIds : peerOrgSearchNext(id)
  \/ peerCommitResolve

SpecPeer == InitOrg /\ [][NextPeer]_vars

\* ==================================================================== claims
\* the handlers of the open flow that are suspended at an await with pc in pcs
InFlight(pcs) == {i \in DOMAIN tasks : tasks[i].cur /\ tasks[i].pc \in pcs}

\* this step calls an asynchronous handler from the given origin
Started(origin) ==
  /\ Len(tasks') = Len(tasks) + 1
  /\ tasks'[Len(tasks')].origin = origin

\* this step calls handleComplete from a step's submit action
SubmitCommitStarted == Started("submit") /\ tasks'[Len(tasks')].pc = "commit"

\* position of a step on its path
StepRank(s) ==
  CASE s = "intent" -> 0
    [] s \in {"provider-type", "family-info"} -> 1
    [] s \in {"provider-info", "family-needs"} -> 2
    [] s = "org-search" -> 3
    [] s = "auth" -> 4
    [] s = "verify-code" -> 5
    [] OTHER -> 6

\* this step takes a forward edge of the open flow: a submit of a data step,
\* or the gateway's answer that moves auth on to verify-code
Forward ==
  /\ isOpen /\ isOpen'
  /\ StepRank(step') > StepRank(step)
  /\ (tasks' = tasks \/ step = "auth")

\* this step is the submit of a data step
Submitted == (Forward /\ tasks' = tasks) \/ SubmitCommitStarted

\* C1: in a claim flow, at most one call of handleComplete made in the open
\* flow is under way at any time (the commit routine is started once per flow)
C1_CommitStartedOnce ==
  claimProfile # Null => Cardinality(InFlight({"commit"})) <= 1

\* C2: while a handler started by a submit action of the open flow is
\* unresolved, no submit action starts another handler
C2_NoSecondSubmit ==
  [][(\E i \in DOMAIN tasks : tasks[i].cur /\ tasks[i].origin = "submit")
       /\ isOpen
       => ~Started("submit")]_vars

\* C3: at most one gateway sign-up / sign-in call of the open flow is in flight
C3_OneAuthCall ==
  Cardinality(InFlight({"signUp", "signUpOtp", "signIn"})) <= 1

C5_WrittenOnlyIfEmpty ==
  mergeUpdate # <<>> =>
    \A k \in ClaimFields :
      k \in DOMAIN mergeUpdate[1] => ~Truthy(mergeSnapshot[k])

\* C5 amended: a field is in the claim update only if the snapshot's value of
\* it is empty or, for display name and description, holds white space only
C5_WrittenOnlyIfBlank ==
  mergeUpdate # <<>> =>
    \A k \in ClaimFields :
      k \in DOMAIN mergeUpdate[1] =>
        \/ ~Truthy(mergeSnapshot[k])
        \/ k \in {"display_name", "description"} /\ Trim(mergeSnapshot[k]) = <<>>

\* C5 witness: snapshot city Austin, flow city Dallas, no city in the update
C5_AustinKept ==
  /\ mergeUpdate # <<>>
  /\ mergeSnapshot.city = Austin
  /\ mergeData.city = Dallas
  /\ "city" \notin DOMAIN mergeUpdate[1]

\* the draft keys whose values the user types or picks in a step's fields
FieldKeys == DraftKeys \ {"intent", "providerType"}

\* C6: a reopen with a draft younger than 30 minutes, no claim target and no
\* conflicting intent preset leaves the field values of the draft in FlowData
C6_DraftRestoredOnReopen ==
  [][(/\ ~isOpen /\ isOpen'
      /\ claimProfile = Null
      /\ draft # NoDraft
      /\ draft[1].age < DRAFT_MAX_AGE
      /\ (initialIntent = Null \/ draft[1].data.intent = initialIntent))
       => \A k \in FieldKeys : data'[k] = draft[1].data[k]]_vars

\* C7: wherever the progress header is shown, stepNumber <= totalSteps
C7_StepNumberWithinTotal ==
  isOpen /\ showProgress(step, data) =>
    getStepConfig(step, data, user).stepNumber
      <= getStepConfig(step, data, user).totalSteps

\* C8: while the flow stays open on a chosen branch, totalSteps does not change
C8_TotalStepsConstant ==
  [][(/\ isOpen /\ isOpen'
      /\ data.intent # Null
      /\ (data.intent = "provider" => data.providerType # Null)
      /\ data'.intent = data.intent
      /\ data'.providerType = data.providerType)
       => getStepConfig(step', data', user').totalSteps
            = getStepConfig(step, data, user).totalSteps]_vars

\* C9: after a forward edge A -> B, back from B is available and leads to A,
\* unless B is the entry step of the preset configuration or B is auth in a
\* claim flow, and then back is unavailable
C9_BackMirrorsForward ==
  [][Forward =>
       IF \/ step' = getInitialStep(claimProfile, initialIntent, initialProviderType)
          \/ (step' = "auth" /\ claimProfile # Null)
       THEN ~canGoBack(step', claimProfile, initialIntent, initialProviderType)
       ELSE /\ canGoBack(step', claimProfile, initialIntent, initialProviderType)
            /\ goBackStep(step', data', claimProfile, initialIntent,
                          initialProviderType) = step]_vars

Returned(i) == tasks' = RemoveAt(tasks, i) /\ error' = error

\* the handler at index i stays suspended and moves to another await
Moved(i) == Len(tasks') = Len(tasks) /\ tasks'[i].pc # tasks[i].pc

\* C11 as stated: the step becomes verify-code only when a sign-up that needs
\* verification has sent its code; a handler of sign-in, sign-up or verify
\* that goes on after its gateway call goes to the commit on the same step
C11_VerifyOnlyAfterSignUp ==
  [][/\ (step' = "verify-code" /\ step # "verify-code")
          => \E i \in DOMAIN tasks : tasks[i].pc = "signUpOtp" /\ Returned(i)
     /\ \A i \in DOMAIN tasks :
          (tasks[i].pc \in {"signIn", "signUp", "verifyOtp"} /\ Moved(i))
            => /\ step' = step
               /\ \/ tasks'[i].pc = "commit"
                  \/ tasks[i].pc = "signUp" /\ tasks'[i].pc = "signUpOtp"]_vars

\* C11 amended: the step becomes verify-code only when a sign-up that needs
\* verification, or the request of a sign-in code, has sent its code
C11_VerifyOnlyAfterCodeSent ==
  [][/\ (step' = "verify-code" /\ step # "verify-code")
          => \E i \in DOMAIN tasks :
               tasks[i].pc \in {"signUpOtp", "sendOtpForSignIn"} /\ Returned(i)
     /\ \A i \in DOMAIN tasks :
          (tasks[i].pc \in {"signIn", "signUp", "verifyOtp"} /\ Moved(i))
            => /\ step' = step
               /\ \/ tasks'[i].pc = "commit"
                  \/ tasks[i].pc = "signUp" /\ tasks'[i].pc = "signUpOtp"]_vars

\* C11 witness: on verify-code, the verification has succeeded and its handler
\* is in handleComplete
C11_VerifiedIntoCommit ==
  /\ isOpen /\ step = "verify-code" /\ otpCode = Code8 /\ session
  /\ \E i \in InFlight({"commit"}) : tasks[i].origin = "submit"

\* C12: in a flow that has a claim target the step is auth or verify-code in
\* every state, and the step a closed flow will open on is auth
C12_ClaimFlowSteps ==
  claimProfile # Null
    => /\ step \in {"auth", "verify-code"}
       /\ (~isOpen => step = "auth")

\* the commit at index i comes to its end in this step and closes the flow
Completed(i) ==
  /\ tasks[i].pc = "commit"
  /\ tasks' = RemoveAt(tasks, i)
  /\ isOpen /\ ~isOpen'

\* C13: in the flow of an organization with nobody signed in, Continue on
\* org-search with a listing selected keeps its id; a sign-up that needs
\* verification, once its code is sent, sets the step to verify-code; the
\* commit that completes on verify-code updates the selected listing, makes
\* it the active profile and inserts no row
C13_VerifiedClaimMerges ==
  [][/\ (step = "org-search" /\ step' = "auth" /\ selectedOrgId \in searchResults)
          => data'.claimedProfileId = selectedOrgId
     /\ \A i \in DOMAIN tasks :
          /\ (tasks[i].pc = "signUpOtp" /\ Returned(i)) => step' = "verify-code"
          /\ (/\ Completed(i)
              /\ tasks[i].cur /\ tasks[i].origin = "submit"
              /\ step = "verify-code" /\ data.claimedProfileId # Null)
               => /\ db'.inserted = db.inserted
                  /\ db'.row = db.row
                  /\ db'.claimUpdates = db.claimUpdates + 1
                  /\ data.claimedProfileId \in db'.claimed
                  /\ db'.active = data.claimedProfileId]_vars

\* C13 witness: the listing L1 was selected, the flow is on verify-code, the
\* code is verified and the commit of that flow, holding L1, is in flight
C13_VerifiedCommitOfListing ==
  /\ isOpen /\ step = "verify-code" /\ otpCode = Code8 /\ session
  /\ authMode = "sign-up"
  /\ selectedOrgId = "L1" /\ data.claimedProfileId = "L1"
  /\ \E i \in InFlight({"commit"}) :
       tasks[i].origin = "submit" /\ tasks[i].snap.claimedProfileId = "L1"

\* C14: in a family flow that is on auth, with no earlier write and no handler
\* of an earlier opening in flight, the commit that completes inserts one row
\* (type family, claim state claimed, care_types the careNeeds of FlowData),
\* makes its id the active profile, flags the onboarding complete, and leaves
\* nothing in flight that could insert another
C14_FamilyCommitInsertsOne ==
  [][\A i \in DOMAIN tasks :
       (/\ Completed(i)
        /\ claimProfile = Null /\ step = "auth" /\ data.intent = "family"
        /\ \A j \in DOMAIN tasks : tasks[j].cur /\ tasks[j].origin = "submit"
        /\ db.inserted = 0 /\ db.claimUpdates = 0)
         => /\ db'.inserted = 1
            /\ db'.row = <<[type |-> "family", claim_state |-> "claimed",
                            verification_state |-> "unverified",
                            care_types |-> data.careNeeds]>>
            /\ db'.active = ProfileIds[1]
            /\ db'.onboarding
            /\ db'.account
            /\ db'.claimUpdates = 0 /\ ~db'.membership
            /\ tasks' = <<>>]_vars

\* C14 witness: a family with nobody signed in has chosen Memory Care and
\* signed up without verification; the commit has inserted its row
C14_FamilyRowInserted ==
  /\ ~isOpen /\ session /\ ~user /\ tasks = <<>>
  /\ db.inserted = 1
  /\ db.row = <<[type |-> "family", claim_state |-> "claimed",
                 verification_state |-> "unverified",
                 care_types |-> <<"Memory Care">>]>>
  /\ db.active = "P1" /\ db.onboarding

\* C15: a verification of the open flow on verify-code that fails as invalid
\* or expired leaves the step and FlowData as they are, shows the error of its
\* kind, starts no commit and clears the code field
C15_FailedCodeCleared ==
  [][\A i \in DOMAIN tasks :
       (/\ tasks[i].pc = "verifyOtp" /\ tasks[i].cur
        /\ isOpen /\ step = "verify-code"
        /\ tasks' = RemoveAt(tasks, i)
        /\ error' # error)
         => /\ error' \in {"code-expired", "code-invalid", "something-went-wrong"}
            /\ isOpen' /\ step' = "verify-code" /\ data' = data
            /\ db' = db
            /\ ~loading'
            /\ (error' \in {"code-expired", "code-invalid"} => otpCode' = Empty)]_vars

\* the commit at index i ends in this step with one of its writes missing:
\* no account, no profile written, no active profile, no membership of a
\* provider, or the draft still stored
EndsIncomplete(i) ==
  /\ tasks[i].pc = "commit"
  /\ tasks' = RemoveAt(tasks, i)
  /\ \/ ~db'.account
     \/ db'.inserted = db.inserted /\ db'.claimUpdates = db.claimUpdates
     \/ db'.active = Null \/ ~db'.onboarding
     \/ tasks[i].snap.intent = "provider" /\ ~db'.membership
     \/ draft' # NoDraft

\* C16: a commit of the open flow that ends with one of its writes missing
\* leaves the flow open with an error shown and the submit enabled again, and
\* starts nothing
C16_FailedCommitShowsError ==
  [][\A i \in DOMAIN tasks :
       (tasks[i].cur /\ isOpen /\ EndsIncomplete(i))
         => /\ isOpen'
            /\ error' \in {"not-authenticated", "commit-failed", "missing-intent"}
            /\ ~loading']_vars

\* C17: when a submitted commit of the open flow is the first to complete (no
\* account update has succeeded before it), the store holds one account and
\* one written profile, whatever failed attempts came before it
C17_RetryWritesOnce ==
  [][\A i \in DOMAIN tasks :
       (/\ Completed(i)
        /\ tasks[i].cur /\ tasks[i].origin = "submit"
        /\ claimProfile = Null
        /\ db.active = Null)
         => /\ db'.account
            /\ db'.inserted + Cardinality(db'.claimed) = 1]_vars

\* C18: a commit rendered with no intent ends with an error shown and the flow
\* as open as it was; it writes no profile, no active profile, no onboarding
\* flag and no membership, and leaves the draft stored
C18_NoIntentNoWrite ==
  [][\A i \in DOMAIN tasks :
       (/\ tasks[i].pc = "commit"
        /\ tasks[i].snap.intent = Null
        /\ tasks' = RemoveAt(tasks, i))
         => /\ error' \in {"missing-intent", "commit-failed", "not-authenticated"}
            /\ isOpen' = isOpen
            /\ db'.inserted = db.inserted /\ db'.row = db.row
            /\ db'.claimUpdates = db.claimUpdates /\ db'.claimed = db.claimed
            /\ db'.active = db.active /\ db'.onboarding = db.onboarding
            /\ db'.membership = db.membership
            /\ draft' = draft]_vars

\* C18 witness: a commit with no intent has ended on the message that asks
\* for the intent; the account exists, nothing else was written and the
\* draft is stored
C18_IntentAskedFor ==
  /\ error = "missing-intent" /\ isOpen /\ ~loading /\ tasks = <<>>
  /\ data.intent = Null
  /\ db.account /\ db.inserted = 0 /\ db.claimUpdates = 0 /\ db.active = Null
  /\ ~db.onboarding /\ ~db.membership
  /\ draft # NoDraft

\* a commit in flight leaves the handlers in flight only by coming to its
\* end, with a write or with an error
CommitsRunToTheirEnd ==
  \A i \in DOMAIN tasks :
    (tasks[i].pc = "commit" /\ tasks' = RemoveAt(tasks, i))
      => (db' # db \/ error' # "")

\* C19: while a commit of the open flow is in flight the flow closes only when
\* that commit completes, and no commit is cancelled
C19_NoCloseDuringCommit ==
  [][/\ (InFlight({"commit"}) # {} /\ isOpen)
          => (isOpen' \/ \E i \in InFlight({"commit"}) : Completed(i))
     /\ Len(tasks') >= Len(tasks) \/ \E i \in DOMAIN tasks : tasks' = RemoveAt(tasks, i)
     /\ CommitsRunToTheirEnd]_vars

\* the stored draft is older than the 30 minutes of the restore effect
Expired(d) == d # NoDraft /\ ~(d[1].age < DRAFT_MAX_AGE)

C21_OtherBranchDraftIgnored ==
  [][(/\ ~isOpen /\ isOpen'
      /\ claimProfile = Null /\ initialIntent # Null
      /\ draft # NoDraft /\ draft[1].data.intent # initialIntent)
       => /\ data' = data
          /\ data'.intent = initialIntent]_vars

\* C21 witness: a provider flow is open, the store holds the draft of a family
\* named Jane in Dallas, and FlowData has neither value
C21_FamilyDraftNotInProviderFlow ==
  /\ isOpen /\ initialIntent = "provider" /\ data.intent = "provider"
  /\ draft # NoDraft
  /\ draft[1].data.intent = "family"
  /\ draft[1].data.displayName = Jane /\ draft[1].data.city = Dallas
  /\ data.displayName = Empty /\ data.city = Empty

\* C22: a close that is not the end of a commit sets step, FlowData, error,
\* code field, cooldown and search state to their initial values for the
\* presets and leaves the stored draft as it is
C22_CloseResetsKeepsDraft ==
  [][(isOpen /\ ~isOpen' /\ tasks' = tasks)
       => /\ step' = getInitialStep(claimProfile, initialIntent, initialProviderType)
          /\ data' = InitialData(claimProfile, initialIntent, initialProviderType)
          /\ error' = ""
          /\ otpCode' = Empty
          /\ resendCooldown' = 0
          /\ searchResults' = {} /\ ~hasSearched' /\ selectedOrgId' = Null
          /\ draft' = draft]_vars

\* C22 witness: a flow was closed after the name was typed: FlowData and the
\* step are those of the presets and the draft with the name is stored
C22_ClosedWithDraftKept ==
  /\ ~isOpen /\ tasks = <<>>
  /\ step = getInitialStep(claimProfile, initialIntent, initialProviderType)
  /\ data = InitialData(claimProfile, initialIntent, initialProviderType)
  /\ data.displayName = Empty
  /\ otpCode = Empty /\ resendCooldown = 0
  /\ draft # NoDraft /\ draft[1].data.displayName = Jane /\ draft[1].age = 0

\* the fields of FlowData that must not be stored
SecretKeys == {"email", "password", "claimedProfileId"}

\* C23: the stored draft has no email, password or claimed-profile field, and
\* the save effect writes the same item whatever values those fields have
C23_DraftHoldsNoSecret ==
  /\ draft # NoDraft => DOMAIN draft[1].data \cap SecretKeys = {}
  /\ \A e \in {Empty, Mail}, pw \in {Empty, Pass8}, id \in {Null} \cup ListingIds :
       SaveProgress(isOpen, step,
                    Merge(data, [email |-> e, password |-> pw,
                                 claimedProfileId |-> id]),
                    draft)
         = SaveProgress(isOpen, step, data, draft)

\* C23 witness: the draft was written on a data-collection step while
\* FlowData held the email and the password
C23_DraftWrittenWithEmailTyped ==
  /\ isOpen /\ step \notin {"auth", "verify-code"}
  /\ data.email = Mail /\ data.password = Pass8
  /\ draft # NoDraft /\ draft[1].age = 0 /\ draft[1].step = step

\* the steps on which the save effect does not write
AuthSteps == {"auth", "verify-code"}

\* C24 as stated: while the flow stays on auth or verify-code the stored draft
\* is not written (it may be removed); a change of FlowData made in the open
\* flow on any other step is followed by a write of the new FlowData with the
\* time of the write
C24_MutationWritesDraft ==
  [][/\ (step \in AuthSteps /\ step' \in AuthSteps /\ isOpen /\ isOpen')
          => (draft' = draft \/ draft' = NoDraft)
     /\ (step \notin AuthSteps /\ isOpen /\ isOpen' /\ data' # data)
          => draft' = <<toSave(step', data')>>]_vars

\* C24 amended: as above, for the changes of FlowData after which the flow is
\* on a step other than auth and verify-code
C24_MutationOffAuthWritesDraft ==
  [][/\ (step \in AuthSteps /\ step' \in AuthSteps /\ isOpen /\ isOpen')
          => (draft' = draft \/ draft' = NoDraft)
     /\ (step' \notin AuthSteps /\ isOpen' /\ data' # data)
          => draft' = <<toSave(step', data')>>]_vars

\* C24 witness: on auth the email was typed and the stored draft, written on
\* family-needs before, has aged by no write
C24_NoWriteOnAuth ==
  /\ isOpen /\ step = "auth" /\ data.email = Mail
  /\ draft # NoDraft /\ draft[1].step = "family-needs"
  /\ \A k \in DraftKeys : draft[1].data[k] = data[k]

\* C25: a commit of the open flow that completes, closing the flow, leaves the
\* store empty; a commit that ends with one of its writes missing leaves the
\* stored draft as it is
C25_DraftClearedIffCommitted ==
  [][\A i \in DOMAIN tasks :
       /\ (Completed(i) /\ tasks[i].cur) => draft' = NoDraft
       /\ (tasks[i].cur /\ isOpen /\ EndsIncomplete(i)) => draft' = draft]_vars

\* the fields of a listing the flow can collect a value for
MergedFields ==
  {"city", "state", "zip", "category", "care_types", "description", "phone"}

\* the value the flow collected for a field of the listing
Collected(k, d) ==
  IF k = "category" THEN d.category ELSE ClaimFieldValue(k, d)

\* C26: after a claim-merge commit the profile holds, for each of city, state,
\* zip, category, care types, description and phone, the listing's value when
\* that is non-empty and the flow's value when the listing's is empty and the
\* flow collected one; the account id is set and the claim state is pending
C26_MergeKeepsOrTakes ==
  mergeUpdate # <<>> =>
    LET row == Updated(mergeSnapshot, mergeUpdate[1])
    IN /\ \A k \in MergedFields :
            /\ Truthy(mergeSnapshot[k]) => row[k] = mergeSnapshot[k]
            /\ (~Truthy(mergeSnapshot[k]) /\ Truthy(Collected(k, mergeData)))
                 => row[k] = Collected(k, mergeData)
       /\ row.account_id = "account-1"
       /\ row.claim_state = "pending"

\* the handler at i ends in this step, at one of the awaits in pcs
Resolved(i, pcs) == tasks[i].pc \in pcs /\ tasks' = RemoveAt(tasks, i)

\* C27: a code send that succeeds sets the cooldown to 30, a resend that
\* succeeds sets it to 60; the timer takes one off while it is above 0 and
\* never goes below 0; no resend is issued while the cooldown is above 0
C27_ResendCooldown ==
  [][/\ \A i \in DOMAIN tasks :
          /\ (Resolved(i, {"signUpOtp", "sendOtpForSignIn"}) /\ error' = "")
               => resendCooldown' = 30
          /\ (Resolved(i, {"resend"}) /\ error' = "") => resendCooldown' = 60
     /\ (Started("submit") /\ tasks'[Len(tasks')].pc = "resend")
          => resendCooldown = 0
     /\ (tasks' = tasks /\ isOpen' = isOpen)
          => /\ resendCooldown' \in {resendCooldown, resendCooldown - 1}
             /\ resendCooldown' >= 0]_vars

\* C27 witness: on verify-code at cooldown 0 the code was resent, which set the
\* cooldown to 60, and two seconds went by
C27_TwoSecondsAfterResend ==
  /\ isOpen /\ step = "verify-code"
  /\ events = 4
  /\ tasks = <<>>
  /\ resendCooldown = 58

\* the steps counted on the path of a branch, in their order; verify-code takes
\* the place of auth
CountedPath(intent, type, authenticated) ==
  (IF intent = "provider"
   THEN IF type = "organization"
        THEN <<"provider-type", "provider-info", "org-search">>
        ELSE <<"provider-type", "provider-info">>
   ELSE <<"family-info", "family-needs">>)
  \o (IF authenticated THEN <<>> ELSE <<"auth">>)

Ordinal(s, path) ==
  LET at == IF s = "verify-code" THEN "auth" ELSE s
  IN CHOOSE n \in DOMAIN path : path[n] = at

OnPath(s, path) ==
  \E n \in DOMAIN path : path[n] = IF s = "verify-code" THEN "auth" ELSE s

\* the branch of the flow is chosen
BranchChosen(d) ==
  \/ d.intent = "family"
  \/ d.intent = "provider" /\ d.providerType # Null

\* C28: on a chosen branch totalSteps is 3 (organization), 2 (caregiver) or
\* 2 (family) plus 1 for nobody signed in; stepNumber is the ordinal of the
\* current step on that path, auth and verify-code having the last one
C28_StepConfigOfPath ==
  (isOpen /\ BranchChosen(data)) =>
    LET path == CountedPath(data.intent, data.providerType, user)
        config == getStepConfig(step, data, user)
    IN /\ config.totalSteps
            = (IF data.intent = "family" THEN 2
               ELSE IF data.providerType = "organization" THEN 3 ELSE 2)
              + (IF user THEN 0 ELSE 1)
       /\ OnPath(step, path) => config.stepNumber = Ordinal(step, path)
       /\ (~user /\ step \in {"auth", "verify-code"})
            => config.stepNumber = config.totalSteps

\* C28 witness: an organization flow of nobody signed in shows step 4 of 4 on
\* verify-code
C28_OrganizationVerifyIsFourOfFour ==
  /\ isOpen /\ ~user
  /\ claimProfile = Null
  /\ data.providerType = "organization"
  /\ step = "verify-code"
  /\ getStepConfig(step, data, user) = [stepNumber |-> 4, totalSteps |-> 4]

\* C29: a flow that opens shows the initial step of its presets; a restore of
\* the draft leaves the step; intent is shown only in a flow with no intent
\* preset and no claim target
C29_OpensOnInitialStep ==
  [][/\ (~isOpen /\ isOpen')
          => step' = getInitialStep(claimProfile', initialIntent', initialProviderType')
     /\ (isOpen' /\ step' = "intent")
          => (initialIntent' = Null /\ claimProfile' = Null)]_vars

\* the commit at i, of a provider with no listing to claim, ends in this step
ProviderCommitEnds(i) ==
  /\ tasks[i].pc = "commit"
  /\ tasks' = RemoveAt(tasks, i)
  /\ tasks[i].snap.intent = "provider"
  /\ tasks[i].snap.claimedProfileId = Null

Committed(i) ==
  /\ tasks[i].pc = "commit"
  /\ tasks' = RemoveAt(tasks, i)
  /\ \/ Completed(i)
     \/ db'.active # db.active
     \/ db'.onboarding /\ ~db.onboarding

\* C31: after each commit of a provider the account has exactly one
\* membership; the commit of a family leaves the memberships as they are
C31_OneMembership ==
  [][\A i \in DOMAIN tasks :
       Committed(i) =>
         IF tasks[i].snap.intent = "provider"
         THEN Len(db'.memberships) = 1
         ELSE db'.memberships = db.memberships]_vars

\* C37: a commit leaves the plan and status of a membership the account
\* already has; it writes the free tier only for an account with none
C37_MembershipKept ==
  [][\A i \in DOMAIN tasks :
       (tasks[i].pc = "commit" /\ tasks' = RemoveAt(tasks, i))
         => /\ db.memberships # <<>> => db'.memberships = db.memberships
            /\ db'.memberships # db.memberships
                 => db.memberships = <<>> /\ db'.memberships = <<FreeMembership>>]_vars

\* the commits that this step starts: a handler is called at handleComplete,
\* or a handler in flight goes on into it
CommitsStarted ==
  {j \in DOMAIN tasks' :
     /\ tasks'[j].pc = "commit"
     /\ \/ j > Len(tasks)
        \/ j \in DOMAIN tasks /\ Len(tasks') = Len(tasks) /\ tasks[j].pc # "commit"}

\* C32: every commit starts with intent family or provider and with a signed-in
\* identity; no commit ends with the missing-intent or not-authenticated error
C32_CommitHasIntentAndIdentity ==
  [][/\ \A j \in CommitsStarted :
          tasks'[j].snap.intent \in UserIntent /\ session'
     /\ error' \notin {"missing-intent", "not-authenticated"}]_vars

C34_DuplicateStaysOnAuth ==
  [][\A i \in DOMAIN tasks :
       (/\ tasks[i].cur /\ isOpen
        /\ Resolved(i, {"signUp"})
        /\ error' = "already-registered")
         => /\ step' = step /\ isOpen'
            /\ ~loading'
            /\ data' = data
            /\ session' = session /\ db' = db
            /\ resendCooldown' = resendCooldown]_vars

\* C34 witness: the sign-up with email and password was answered as already
\* registered; the message is shown on auth with the email still entered
C34_AlreadyRegisteredShown ==
  /\ isOpen /\ step = "auth" /\ authMode = "sign-up"
  /\ error = "already-registered"
  /\ data.email = Mail
  /\ ~loading /\ tasks = <<>> /\ ~session

\* C35: in a flow without claim target, Continue on org-search leaves in
\* FlowData the listing selected at that moment, or none; a commit that
\* updates a listing is the commit of an organization whose FlowData holds the
\* listing selected at the last Continue
C35_ClaimOnlyOfSelected ==
  [][/\ (isOpen /\ claimProfile = Null /\ step = "org-search" /\ step' = "auth")
          => /\ selectedOrgId \in searchResults
                  => data'.claimedProfileId = selectedOrgId
             /\ selectedOrgId = Null => data'.claimedProfileId = Null
     /\ \A i \in DOMAIN tasks :
          (/\ tasks[i].pc = "commit" /\ tasks[i].cur
           /\ claimProfile = Null
           /\ db'.claimUpdates = db.claimUpdates + 1)
            => tasks[i].snap.providerType = "organization"]_vars

\* the requests for a verification code that this step hands to the gateway
CodeRequestsSent ==
  {j \in DOMAIN tasks' :
     /\ tasks'[j].pc \in {"signUpOtp", "sendOtpForSignIn", "resend"}
     /\ \/ j > Len(tasks)
        \/ j \in DOMAIN tasks /\ Len(tasks') = Len(tasks)
             /\ tasks[j].pc # tasks'[j].pc}

\* C36: no request for a verification code is handed to the gateway while the
\* cooldown is above 0
C36_NoCodeRequestInCooldown ==
  [][CodeRequestsSent # {} => resendCooldown = 0]_vars

\* C38: with a providerType preset, FlowData.providerType is the preset in
\* every state, and every row inserted for a provider has the preset's type
C38_PresetTypeKept ==
  initialProviderType # Null =>
    /\ data.providerType = initialProviderType
    /\ (db.row # NoRow /\ db.row[1].type # "family")
         => db.row[1].type = initialProviderType

\* C39: a claim-merge does not attach its account to a listing that is no
\* longer unclaimed at the time of the write: the account of a listing that
\* has one is never replaced
C39_ClaimOnlyOfUnclaimed ==
  [][\A id \in ListingIds :
       db.owner[id] # Null => db'.owner[id] = db.owner[id]]_vars
====
